---- MODULE Spec2Model ----
(***************************************************************************)
(* Nutrition Analysis API (src/app.py, src/auth.py, src/database.py,       *)
(* src/download_model.py): signup / login / me over a user table with a    *)
(* unique email column, JWT bearer authentication, and the protected       *)
(* fruit-detection endpoint with its temporary upload file and the lazily  *)
(* loaded, process-wide classifier.                                        *)
(*                                                                         *)
(* Strings are sequences of one-character strings, so that strip(),       *)
(* lower(), "@" in s, startswith() and int() are computed, not assumed.    *)
(***************************************************************************)
EXTENDS Integers, Sequences, FiniteSets, TLC

VARIABLES
    users,        \* the users table: sequence of rows, in insertion order
    signups,      \* ghost: per row, what the accepted signup request carried
    now,          \* the clock (datetime.utcnow), in minutes
    issued,       \* TokenResponses the clients still hold
    resp,         \* the last response the server sent
    threads,      \* worker threads running signup concurrently
    reqs,         \* fruit-detection coroutines suspended at await file.read(),
                  \* each named by the temporary file it created
    tempFiles,    \* temporary files present on disk
    classifier,   \* the module global _classifier (0 = None)
    modelFile,    \* whether resnet50-19c8e357.pth exists on disk
    loads,        \* ghost: successful loadModel() calls
    failedLoads,  \* ghost: get_classifier calls that raised
    calls         \* ghost: get_classifier calls

vars == <<users, signups, now, issued, resp, threads, reqs, tempFiles,
          classifier, modelFile, loads, failedLoads, calls>>

authVars == <<users, signups, now, issued, resp>>
concVars == <<threads>>
fruitVars == <<reqs, tempFiles, classifier, modelFile, loads, failedLoads, calls>>

(***************************************************************************)
(* Bounds of the model.                                                    *)
(***************************************************************************)
MaxTicks == 2
MaxTokens == 1
NThreads == 2
NReqs == 2
MaxTempFiles == 3
MaxCalls == 3

(***************************************************************************)
(* String helpers.                                                         *)
(***************************************************************************)
LowerChar(c) == IF c = "A" THEN "a" ELSE IF c = "B" THEN "b" ELSE c

Lower(s) == [i \in 1..Len(s) |-> LowerChar(s[i])]

IsSpace(c) == c = " "

RECURSIVE LStrip(_)
LStrip(s) == IF s # <<>> /\ IsSpace(Head(s)) THEN LStrip(Tail(s)) ELSE s

RECURSIVE RStrip(_)
RStrip(s) ==
    IF s # <<>> /\ IsSpace(s[Len(s)]) THEN RStrip(SubSeq(s, 1, Len(s) - 1)) ELSE s

Strip(s) == RStrip(LStrip(s))

Contains(s, c) == \E i \in 1..Len(s) : s[i] = c

StartsWith(s, p) == Len(s) >= Len(p) /\ SubSeq(s, 1, Len(p)) = p

Digits == <<"0", "1", "2", "3", "4", "5", "6", "7", "8", "9">>

IsDigit(c) == \E d \in 1..Len(Digits) : Digits[d] = c

DigitVal(c) == (CHOOSE d \in 1..Len(Digits) : Digits[d] = c) - 1

\* str(n) for n >= 0
RECURSIVE ToStr(_)
ToStr(n) ==
    IF n < 10 THEN <<Digits[n + 1]>>
    ELSE ToStr(n \div 10) \o <<Digits[(n % 10) + 1]>>

\* int(s) succeeds on a non-empty string of digits
IsNumeric(s) == s # <<>> /\ \A i \in 1..Len(s) : IsDigit(s[i])

RECURSIVE ParseInt(_)
ParseInt(s) ==
    IF s = <<>> THEN 0
    ELSE 10 * ParseInt(SubSeq(s, 1, Len(s) - 1)) + DigitVal(s[Len(s)])

(***************************************************************************)
(* Request inputs.  Names, emails and passwords are drawn from small sets  *)
(* that hold every case the handlers distinguish: empty, blank, too short, *)
(* padded with whitespace, upper case, with and without "@".               *)
(***************************************************************************)
NameInputs == { <<" ">>, <<" ", "n", " ">>, <<"n", "n">>, <<" ", "n", "n", " ">> }

EmailInputs ==
    { <<" ">>, <<"a", "b">>, <<"@">>, <<"a", "@", "b">>, <<" ", "A", "@", "b", " ">> }

Rep(c, n) == [i \in 1..n |-> c]

PasswordInputs == { Rep("p", 0), Rep("p", 5), Rep("p", 6), Rep("q", 6) }

SignupRequest == [name : NameInputs, email : EmailInputs, password : PasswordInputs]

LoginRequest == [email : EmailInputs, password : PasswordInputs]

\* bcrypt draws a fresh random salt for every hash
Salts == {"s1", "s2"}

(***************************************************************************)
(* database.py: the users table.                                           *)
(***************************************************************************)
None_Hash == [salt |-> "", digest |-> <<>>]

\* None, as returned by Query.first() on an empty result
None_User == [id |-> 0, name |-> <<>>, email |-> <<>>, password_hash |-> None_Hash]

\* the first of the rows the filter matched (given by their indexes), or None
First(table, matched) ==
    IF matched = {} THEN None_User
    ELSE table[CHOOSE i \in matched : \A j \in matched : i <= j]

\* Integer primary key: one more than the largest id in the table
NextId(table) ==
    IF table = <<>> THEN 1
    ELSE 1 + (CHOOSE m \in {table[i].id : i \in 1..Len(table)} :
                \A i \in 1..Len(table) : table[i].id <= m)

\* Column(String, unique=True): INSERT fails on an email already in the table
UniqueViolation(table, email) == \E i \in 1..Len(table) : table[i].email = email

User(table, name, email, password_hash) ==
    [id |-> NextId(table), name |-> name, email |-> email,
     password_hash |-> password_hash]

(***************************************************************************)
(* auth.py                                                                 *)
(***************************************************************************)
ACCESS_TOKEN_EXPIRE_MINUTES == 60 * 24 * 7

\* The library digest: salted, and taken to be collision-free.
Digest(salt, password) == <<salt>> \o password

hash_password(password, salt) == [salt |-> salt, digest |-> Digest(salt, password)]

\* faulty variant: accepts any password
verify_password_always(plain, hashed) == TRUE

verify_password(plain, hashed) == Digest(hashed.salt, plain) = hashed.digest

\* No credentials (no Authorization header, another scheme, an empty token)
NoToken == [present |-> FALSE, signed |-> FALSE, hasSub |-> FALSE, sub |-> <<>>, exp |-> 0]

\* faulty variant: the subject is not the user's id
create_access_token_fixed_sub(sub, t) ==
    [present |-> TRUE, signed |-> TRUE, hasSub |-> TRUE, sub |-> ToStr(1),
     exp |-> t + ACCESS_TOKEN_EXPIRE_MINUTES]

\* {"sub": str(user.id), "exp": utcnow() + 7 days}, signed with SECRET_KEY
create_access_token(sub, t) ==
    [present |-> TRUE, signed |-> TRUE, hasSub |-> TRUE, sub |-> ToStr(sub),
     exp |-> t + ACCESS_TOKEN_EXPIRE_MINUTES]

None_Payload == [ok |-> FALSE, hasSub |-> FALSE, sub |-> <<>>]

\* faulty variant: exp is not looked at
decode_token_no_expiry(token, t) ==
    IF token.signed
    THEN [ok |-> TRUE, hasSub |-> token.hasSub, sub |-> token.sub]
    ELSE None_Payload

\* jwt.decode: JWTError on a bad signature and on exp < now; None then
decode_token(token, t) ==
    IF token.signed /\ ~(token.exp < t)
    THEN [ok |-> TRUE, hasSub |-> token.hasSub, sub |-> token.sub]
    ELSE None_Payload

\* faulty variant: the case is kept
NormEmail_no_lower(email) == Strip(email)

\* (body.email or "").strip().lower()
NormEmail(email) == Lower(Strip(email))

get_user_by_email(table, email) ==
    First(table, {i \in 1..Len(table) : table[i].email = NormEmail(email)})

\* faulty variant: the filter is dropped
get_user_by_id_first(table, user_id) ==
    IF table = <<>> THEN None_User ELSE table[1]

get_user_by_id(table, user_id) ==
    First(table, {i \in 1..Len(table) : table[i].id = user_id})

Unauthorized(detail) == [status |-> 401, detail |-> detail, user |-> None_User]

get_current_user(token, table, t) ==
    IF ~token.present THEN Unauthorized("Not authenticated")
    ELSE LET payload == decode_token(token, t) IN
         IF ~payload.ok \/ ~payload.hasSub
         THEN Unauthorized("Invalid or expired token")
         ELSE IF payload.sub = <<>> THEN Unauthorized("Invalid token")
         ELSE IF ~IsNumeric(payload.sub) THEN Unauthorized("Invalid token")
         ELSE LET user == get_user_by_id(table, ParseInt(payload.sub)) IN
              IF user = None_User THEN Unauthorized("User not found")
              ELSE [status |-> 200, detail |-> "", user |-> user]

UserResponse(user) == [id |-> user.id, name |-> user.name, email |-> user.email]

None_UserResponse == UserResponse(None_User)

TokenResponse(token, user) == [access_token |-> token, user |-> UserResponse(user)]

(***************************************************************************)
(* app.py: the auth routes, one request at a time.                         *)
(***************************************************************************)
TickMinutes == ACCESS_TOKEN_EXPIRE_MINUTES

\* A response: the route, the status, the detail or error text, the body's
\* token and user; and for fruit-detection (ghost) the temporary file the
\* request made, the classifier instance it got and the nutrition API's answer.
NoResp ==
    [op |-> "none", status |-> 0, detail |-> "", access_token |-> NoToken,
     user |-> None_UserResponse, temp_path |-> 0, clf |-> 0, usda |-> 0]

\* raise HTTPException(status_code, detail), or an error response
HTTPException(op, status, detail) ==
    [NoResp EXCEPT !.op = op, !.status = status, !.detail = detail]

\* the 200 response carrying a TokenResponse
TokenResp(op, tr) ==
    [NoResp EXCEPT !.op = op, !.status = 200, !.access_token = tr.access_token,
                   !.user = tr.user]

\* The client keeps the TokenResponse, drops it, or drops an older one for it.
Hold(held, tr) ==
    IF Cardinality(held \cup {tr}) <= MaxTokens
    THEN {held, held \cup {tr}}
    ELSE {held} \cup {(held \ {old}) \cup {tr} : old \in held}

\* signup's validation of the body, before the database is read
ValidateSignup(body) ==
    LET name == Strip(body.name)
        email == NormEmail(body.email)
        password == body.password
    IN  IF name = <<>> \/ Len(name) < 2
        THEN [status |-> 400, detail |-> "Name must be at least 2 characters",
              name |-> name, email |-> email, password |-> password]
        ELSE IF email = <<>> \/ ~Contains(email, "@")
        THEN [status |-> 400, detail |-> "Valid email required",
              name |-> name, email |-> email, password |-> password]
        ELSE IF password = <<>> \/ Len(password) < 6
        THEN [status |-> 400, detail |-> "Password must be at least 6 characters",
              name |-> name, email |-> email, password |-> password]
        ELSE [status |-> 200, detail |-> "",
              name |-> name, email |-> email, password |-> password]

Signup(body) ==
    LET v == ValidateSignup(body) IN
    /\ UNCHANGED <<now, concVars, fruitVars>>
    /\ IF v.status # 200
       THEN /\ resp' = HTTPException("signup", v.status, v.detail)
            /\ UNCHANGED <<users, signups, issued>>
       ELSE IF get_user_by_email(users, v.email) # None_User
       THEN /\ resp' = HTTPException("signup", 400, "Email already registered")
            /\ UNCHANGED <<users, signups, issued>>
       ELSE \E salt \in Salts :
              LET user == User(users, v.name, v.email, hash_password(v.password, salt))
                  tr == TokenResponse(create_access_token(user.id, now), user)
              IN  /\ users' = Append(users, user)
                  /\ signups' = Append(signups, [name |-> v.name, email |-> v.email,
                                                password |-> v.password])
                  /\ resp' = TokenResp("signup", tr)
                  /\ issued' \in Hold(issued, tr)

Login(body) ==
    LET email == NormEmail(body.email)
        password == body.password
        user == get_user_by_email(users, email)
    IN  /\ UNCHANGED <<users, signups, now, concVars, fruitVars>>
        /\ IF email = <<>> \/ password = <<>>
           THEN /\ resp' = HTTPException("login", 400, "Email and password required")
                /\ UNCHANGED issued
           ELSE IF user = None_User \/ ~verify_password(password, user.password_hash)
           THEN /\ resp' = HTTPException("login", 401, "Invalid email or password")
                /\ UNCHANGED issued
           ELSE LET tr == TokenResponse(create_access_token(user.id, now), user)
                IN  /\ resp' = TokenResp("login", tr)
                    /\ issued' \in Hold(issued, tr)

Me(token) ==
    LET cur == get_current_user(token, users, now) IN
    /\ UNCHANGED <<users, signups, now, issued, concVars, fruitVars>>
    /\ resp' = IF cur.status # 200
               THEN HTTPException("me", cur.status, cur.detail)
               ELSE [NoResp EXCEPT !.op = "me", !.status = 200,
                                   !.user = UserResponse(cur.user)]

\* time passes
Tick ==
    /\ now < MaxTicks * TickMinutes
    /\ now' = now + TickMinutes
    /\ UNCHANGED <<users, signups, issued, resp, concVars, fruitVars>>

\* Bearer tokens a client can present: none, forged, or signed with any claims
SubInputs == { <<>>, <<"1">>, <<"2">>, <<"3">>, <<"x">>, <<"0", "1">> }

\* expired, expiring this minute
ExpInputs(t) == { t - 1, t }

TokenInputs(t) ==
    {NoToken}
    \cup [present : {TRUE}, signed : {TRUE}, hasSub : {TRUE}, sub : SubInputs,
          exp : {t + 1}]
    \cup [present : {TRUE}, signed : {TRUE}, hasSub : {TRUE}, sub : {<<"1">>, <<"2">>},
          exp : ExpInputs(t)]
    \cup [present : {TRUE}, signed : {TRUE}, hasSub : {FALSE}, sub : {<<>>},
          exp : {t + 1}]
    \cup [present : {TRUE}, signed : {FALSE}, hasSub : {TRUE}, sub : {<<"1">>},
          exp : {t + 1}]

AuthInit ==
    /\ users = <<>>
    /\ signups = <<>>
    /\ now = 0
    /\ issued = {}
    /\ resp = NoResp

FruitIdle == {}

Init ==
    /\ AuthInit
    /\ threads = <<>>
    /\ reqs = FruitIdle
    /\ tempFiles = {}
    /\ classifier = 0
    /\ modelFile = FALSE
    /\ loads = 0
    /\ failedLoads = 0
    /\ calls = 0

\* Signup and login requests of any shape, one after the other.
Next ==
    \/ \E body \in SignupRequest : Signup(body)
    \/ \E body \in LoginRequest : Login(body)

Spec == Init /\ [][Next]_vars

\* Requests that pass validation, for the runs about tokens over time.
AcceptedSignups == { body \in SignupRequest : ValidateSignup(body).status = 200 }

FilledLogins ==
    { body \in LoginRequest : Strip(body.email) # <<>> /\ body.password # <<>> }

\* Users sign up and log in, time passes, and clients call /api/me with the
\* tokens they hold or with tokens of their own making.
NextMe ==
    \/ \E body \in AcceptedSignups : Signup(body)
    \/ \E body \in FilledLogins : Login(body)
    \/ \E token \in TokenInputs(now) \cup {tr.access_token : tr \in issued} : Me(token)
    \/ Tick

SpecMe == Init /\ [][NextMe]_vars

(***************************************************************************)
(* Claims about the auth routes (specification Spec).                      *)
(***************************************************************************)

\* local@domain: exactly one "@", with text on both sides
WellFormedEmail(e) ==
    /\ Cardinality({i \in 1..Len(e) : e[i] = "@"}) = 1
    /\ e[1] # "@"
    /\ e[Len(e)] # "@"

InvalidSignup(body) ==
    \/ Len(Strip(body.name)) < 2
    \/ Strip(body.email) = <<>>
    \/ ~WellFormedEmail(Strip(body.email))
    \/ Len(body.password) < 6

\* C1: a signup whose trimmed name has fewer than 2 characters, whose email is
\* empty or not of the form local@domain, or whose password has fewer than 6
\* characters is answered 400, creates no user and issues no token.
C1_InvalidSignupRejected ==
    [][\A body \in SignupRequest :
         (InvalidSignup(body) /\ Signup(body))
         => /\ resp'.status = 400
            /\ users' = users
            /\ resp'.access_token = NoToken
            /\ issued' = issued]_vars

\* the email, trimmed and lower-cased, is that of a stored user
EmailTaken(email) ==
    \E i \in 1..Len(users) : Lower(Strip(users[i].email)) = Lower(Strip(email))

\* C2 (as stated): every signup with the email of a stored user is answered
\* 400 "Email already registered" and leaves the table unchanged.
C2_DuplicateAlwaysNamed ==
    [][\A body \in SignupRequest :
         (resp'.op = "signup" /\ EmailTaken(body.email) /\ Signup(body))
         => /\ resp'.status = 400
            /\ resp'.detail = "Email already registered"
            /\ users' = users]_vars

\* C2 (amended): every signup with the email of a stored user is answered 400
\* and leaves the table unchanged; the detail is "Email already registered"
\* when the name and the password of the request pass validation.
C2_DuplicateRejected ==
    [][/\ \/ /\ resp'.status = 400
             /\ users' = users
             /\ signups' = signups
             /\ issued' = issued
          \/ ~\E body \in SignupRequest : EmailTaken(body.email) /\ Signup(body)
       /\ \/ resp'.detail = "Email already registered"
          \/ ~\E body \in SignupRequest :
                /\ EmailTaken(body.email)
                /\ Len(Strip(body.name)) >= 2
                /\ Len(body.password) >= 6
                /\ Signup(body)]_vars

C2_Witness ==
    /\ resp.op = "signup"
    /\ resp.status = 400
    /\ resp.detail = "Email already registered"
    /\ Len(users) = 1

\* the rows whose email is the given one and whose signup carried the password
Matching(body) ==
    { i \in 1..Len(users) :
        /\ users[i].email = Lower(Strip(body.email))
        /\ signups[i].password = body.password }

C4_MeReturnsOwner ==
    [][\A tr \in issued :
         Me(tr.access_token)
         => /\ tr.access_token.exp >= now => resp'.status = 200
            /\ resp'.status = 200
               => /\ resp'.user = tr.user
                  /\ \E i \in 1..Len(users) :
                       /\ users[i].id = tr.user.id
                       /\ resp'.user = [id |-> users[i].id,
                                        name |-> signups[i].name,
                                        email |-> signups[i].email]]_vars

C4_Witness ==
    /\ resp.op = "me"
    /\ resp.status = 200
    /\ resp.user.id = 2
    /\ \E tr \in issued : tr.user.id = 2 /\ tr.access_token.sub = <<"2">>

(***************************************************************************)
(* app.py: signup in worker threads.  The handler is a plain def, which    *)
(* the framework runs in a thread pool: between the lookup of the email    *)
(* and the INSERT other requests run.                                      *)
(***************************************************************************)
ThreadIdle ==
    [pc |-> "idle", status |-> 0, detail |-> "", name |-> <<>>, email |-> <<>>,
     password |-> <<>>, access_token |-> NoToken, user |-> None_UserResponse]

ThreadDone(status, detail) ==
    [ThreadIdle EXCEPT !.pc = "done", !.status = status, !.detail = detail]

\* lines 151-161: validation and the lookup of the email
ConcSignupCheck(t, body) ==
    LET v == ValidateSignup(body) IN
    /\ threads[t].pc = "idle"
    /\ UNCHANGED <<authVars, fruitVars>>
    /\ threads' =
         [threads EXCEPT ![t] =
            IF v.status # 200 THEN ThreadDone(v.status, v.detail)
            ELSE IF get_user_by_email(users, v.email) # None_User
            THEN ThreadDone(400, "Email already registered")
            ELSE [ThreadIdle EXCEPT !.pc = "checked", !.name = v.name,
                                    !.email = v.email, !.password = v.password]]

\* lines 162-174: the INSERT and the response.  The unique index on email
\* makes the INSERT fail when the email got in since the lookup; the
\* IntegrityError is not caught and the framework answers 500.
ConcSignupCommit(t) ==
    LET th == threads[t] IN
    /\ th.pc = "checked"
    /\ UNCHANGED <<now, issued, resp, fruitVars>>
    /\ IF UniqueViolation(users, th.email)
       THEN /\ threads' = [threads EXCEPT ![t] = ThreadDone(500, "Internal Server Error")]
            /\ UNCHANGED <<users, signups>>
       ELSE \E salt \in Salts :
              LET user == User(users, th.name, th.email, hash_password(th.password, salt))
                  tr == TokenResponse(create_access_token(user.id, now), user)
              IN  /\ users' = Append(users, user)
                  /\ signups' = Append(signups, [name |-> th.name, email |-> th.email,
                                                password |-> th.password])
                  /\ threads' = [threads EXCEPT ![t] =
                                   [ThreadDone(200, "") EXCEPT
                                      !.email = th.email,
                                      !.access_token = tr.access_token,
                                      !.user = tr.user]]

\* the response is sent and the worker thread is free again
ConcReturn(t) ==
    /\ threads[t].pc = "done"
    /\ threads' = [threads EXCEPT ![t] = ThreadIdle]
    /\ UNCHANGED <<authVars, fruitVars>>

InitConc ==
    /\ AuthInit
    /\ threads = [t \in 1..NThreads |-> ThreadIdle]
    /\ reqs = FruitIdle
    /\ tempFiles = {}
    /\ classifier = 0
    /\ modelFile = FALSE
    /\ loads = 0
    /\ failedLoads = 0
    /\ calls = 0

NextConc ==
    \/ \E t \in 1..NThreads, body \in SignupRequest : ConcSignupCheck(t, body)
    \/ \E t \in 1..NThreads : ConcSignupCommit(t)
    \/ \E t \in 1..NThreads : ConcReturn(t)

SpecConc == InitConc /\ [][NextConc]_vars

\* the unique index holds whatever the interleaving
UniqueEmails ==
    \A i, j \in 1..Len(users) : users[i].email = users[j].email => i = j

\* C9: under any interleaving of concurrent signups the table never holds two
\* rows with one email, and every signup that loses the race for an email is
\* answered 400 like any other duplicate.
C9_ConcurrentDuplicates ==
    /\ UniqueEmails
    /\ \A t \in 1..NThreads :
         threads[t].pc = "done" /\ threads[t].status # 200 => threads[t].status = 400

(***************************************************************************)
(* app.py: the protected fruit-detection endpoint.  The handler is a       *)
(* coroutine on the event loop: other requests run while it awaits         *)
(* file.read(); everything after that runs without yielding.               *)
(***************************************************************************)
\* file.content_type is None when the part carries no Content-Type header
None_ContentType == <<"None">>

ImagePrefix == <<"i", "m", "a", "g", "e", "/">>

ContentTypes ==
    { None_ContentType,
      <<"i", "m", "a", "g", "e">>,
      <<"t", "e", "x", "t", "/", "x">>,
      <<"i", "m", "a", "g", "e", "/", "x">> }

\* tempfile picks a name no file on disk has
FreeNames == (1..MaxTempFiles) \ tempFiles

NamedTemporaryFile == CHOOSE n \in FreeNames : \A m \in FreeNames : n <= m

\* Dependencies, the content-type check and NamedTemporaryFile(delete=False),
\* up to the await of file.read()  (lines 216-224)
FruitStart(token, content_type) ==
    LET cur == get_current_user(token, users, now) IN
    /\ Cardinality(reqs) < NReqs
    /\ UNCHANGED <<users, signups, now, issued, concVars, classifier, modelFile,
                   loads, failedLoads, calls>>
    /\ IF cur.status # 200
       THEN /\ resp' = HTTPException("fruit", cur.status, cur.detail)
            /\ UNCHANGED <<reqs, tempFiles>>
       ELSE IF content_type = None_ContentType
       THEN \* None.startswith: AttributeError, outside any try
            /\ resp' = HTTPException("fruit", 500, "Internal Server Error")
            /\ UNCHANGED <<reqs, tempFiles>>
       ELSE IF ~StartsWith(content_type, ImagePrefix)
       THEN /\ resp' = HTTPException("fruit", 400, "Only image files allowed")
            /\ UNCHANGED <<reqs, tempFiles>>
       ELSE /\ FreeNames # {}
            /\ tempFiles' = tempFiles \cup {NamedTemporaryFile}
            /\ reqs' = reqs \cup {NamedTemporaryFile}
            /\ UNCHANGED resp

\* faulty variant: the cached instance is not looked at
get_classifier_no_cache(cached, fileExists, loadOk, n) ==
    IF ~fileExists THEN [raised |-> TRUE, instance |-> cached, loaded |-> FALSE]
    ELSE IF ~loadOk THEN [raised |-> TRUE, instance |-> cached, loaded |-> FALSE]
    ELSE [raised |-> FALSE, instance |-> n + 1, loaded |-> TRUE]

\* cached: the global _classifier (0 = None); fileExists: _get_model_path()
\* found the file; loadOk: loadModel() did not raise; n: loads so far.
\* Returns the new value of the global and whether the call raised.
get_classifier(cached, fileExists, loadOk, n) ==
    IF cached # 0 THEN [raised |-> FALSE, instance |-> cached, loaded |-> FALSE]
    ELSE IF ~fileExists THEN [raised |-> TRUE, instance |-> 0, loaded |-> FALSE]
    ELSE IF ~loadOk THEN [raised |-> TRUE, instance |-> 0, loaded |-> FALSE]
    ELSE [raised |-> FALSE, instance |-> n + 1, loaded |-> TRUE]

\* fetch_nutritional_data: the status of the HTTPException raised, 0 for none
fetch_nutritional_data(usda) == IF usda # 200 THEN 502 ELSE 0

\* the response of the try block's fall into except Exception
ProcessingFailed(temp_path, clf, usda) ==
    [HTTPException("fruit", 500, "processing_failed") EXCEPT
       !.temp_path = temp_path, !.clf = clf, !.usda = usda]

\* where the rest of the handler fails first, if anywhere: reading or writing
\* the upload, loadModel(), classifyImage(), the nutrition API (503, or no
\* answer at all)
Outcomes == {"io", "load", "classify", "usda503", "usdaNone", "ok"}

UsdaAnswer(outcome) ==
    IF outcome = "usda503" THEN 503 ELSE IF outcome = "usdaNone" THEN 0 ELSE 200

\* The rest of the handler (lines 224-251): the upload is read and written,
\* then try / except Exception / finally.
FruitProcess(temp_path, outcome) ==
    LET gc == get_classifier(classifier, modelFile, outcome # "load", loads)
        usda == UsdaAnswer(outcome)
    IN
    /\ temp_path \in reqs
    /\ reqs' = reqs \ {temp_path}
    /\ UNCHANGED <<users, signups, now, issued, concVars, modelFile>>
    /\ IF outcome = "io"
       THEN \* file.read() or tmp.write() raises: the with block closes the
            \* file and the exception leaves the handler before the try
            /\ resp' = [HTTPException("fruit", 500, "Internal Server Error")
                          EXCEPT !.temp_path = temp_path]
            /\ UNCHANGED <<tempFiles, classifier, loads, failedLoads, calls>>
       ELSE /\ calls < MaxCalls
            /\ calls' = calls + 1
            /\ classifier' = gc.instance
            /\ loads' = IF gc.loaded THEN loads + 1 ELSE loads
            /\ failedLoads' = IF gc.raised THEN failedLoads + 1 ELSE failedLoads
            \* finally: os.remove(temp_path)
            /\ tempFiles' = tempFiles \ {temp_path}
            /\ resp' =
                 IF gc.raised THEN ProcessingFailed(temp_path, 0, 0)
                 ELSE IF outcome = "classify"
                 THEN ProcessingFailed(temp_path, gc.instance, 0)
                 ELSE IF usda = 0 \/ fetch_nutritional_data(usda) # 0
                 THEN \* the HTTPException(502) is an Exception too
                      ProcessingFailed(temp_path, gc.instance, usda)
                 ELSE [NoResp EXCEPT !.op = "fruit", !.status = 200,
                                     !.temp_path = temp_path,
                                     !.clf = gc.instance, !.usda = usda]

\* download_model.py: fetch the weights unless the file is there
DownloadModel ==
    /\ ~modelFile
    /\ modelFile' = TRUE
    /\ UNCHANGED <<authVars, concVars, reqs, tempFiles, classifier,
                   loads, failedLoads, calls>>

\* The table after one accepted signup.
SeedBody ==
    [name |-> <<"n", "n">>, email |-> <<"a", "@", "b">>, password |-> Rep("p", 6)]

InitFruit ==
    /\ users = <<User(<<>>, SeedBody.name, SeedBody.email,
                      hash_password(SeedBody.password, "s1"))>>
    /\ signups = <<SeedBody>>
    /\ now = 0
    /\ issued = {}
    /\ resp = NoResp
    /\ threads = <<>>
    /\ reqs = FruitIdle
    /\ tempFiles = {}
    /\ classifier = 0
    /\ modelFile = FALSE
    /\ loads = 0
    /\ failedLoads = 0
    /\ calls = 0

NextFruit ==
    \/ \E token \in TokenInputs(now), ct \in ContentTypes : FruitStart(token, ct)
    \/ \E temp_path \in reqs, outcome \in Outcomes : FruitProcess(temp_path, outcome)
    \/ \E token \in TokenInputs(now) : Me(token)
    \/ DownloadModel

SpecFruit == InitFruit /\ [][NextFruit]_vars

(***************************************************************************)
(* Claims about the protected endpoints (specification SpecFruit).         *)
(***************************************************************************)

\* no bearer token, not validly signed, past its expiry, without a numeric
\* subject, or with a subject that is no stored user's id
BadToken(token) ==
    \/ ~token.present
    \/ ~token.signed
    \/ token.exp < now
    \/ ~token.hasSub
    \/ ~IsNumeric(token.sub)
    \/ ~\E i \in 1..Len(users) : users[i].id = ParseInt(token.sub)

\* C5: a request to /api/me or /api/fruit-detection with such a token is
\* answered 401; fruit-detection then writes no temporary file and does not
\* call the classifier.  (Read: a step that is such a request ends in a 401
\* response with the files, the coroutines and the classifier as before.)
C5_BadTokenUnauthorized ==
    [][\/ /\ resp'.status = 401
          /\ resp'.op \in {"me", "fruit"}
          /\ tempFiles' = tempFiles
          /\ reqs' = reqs
          /\ calls' = calls
          /\ classifier' = classifier
       \/ ~\E token \in TokenInputs(now) :
             /\ BadToken(token)
             /\ \/ Me(token)
                \/ \E ct \in ContentTypes : FruitStart(token, ct)]_vars

C5_Witness ==
    /\ resp.op = "fruit"
    /\ resp.status = 401
    /\ resp.detail = "User not found"
    /\ tempFiles = {}
    /\ calls = 0

IsImage(content_type) ==
    content_type # None_ContentType /\ StartsWith(content_type, ImagePrefix)

\* C6: an authenticated fruit-detection request whose file has no image
\* content type, a missing content type included, is answered 400, and no
\* temporary file is created and the classifier is not called.
C6_NonImageRejected ==
    [][\/ /\ resp'.status = 400
          /\ resp'.op = "fruit"
          /\ tempFiles' = tempFiles
          /\ reqs' = reqs
          /\ calls' = calls
       \/ ~\E token \in TokenInputs(now), ct \in ContentTypes :
             /\ ~BadToken(token)
             /\ ~IsImage(ct)
             /\ FruitStart(token, ct)]_vars

\* C7: a request during which the nutrition API answered with a status other
\* than 200 is answered 502.
C7_UpstreamFailureIs502 ==
    resp.op = "fruit" /\ resp.usda \notin {0, 200} => resp.status = 502

\* a step in which a request runs get_classifier
Classifies == reqs' # reqs /\ reqs' \subseteq reqs /\ calls' = calls + 1

\* C8: the classifier is not loaded before a request reaches classification,
\* is loaded successfully at most once, every later call returns the cached
\* instance without loading, and a failed load leaves the cache empty.
C8_LazySingleLoad ==
    /\ [](/\ loads <= 1
          /\ (classifier = 0) = (loads = 0)
          /\ calls = 0 => classifier = 0
          /\ loads + failedLoads <= calls)
    /\ [][/\ classifier # 0
             => /\ classifier' = classifier
                /\ loads' = loads
                /\ failedLoads' = failedLoads
          /\ classifier' # classifier \/ loads' # loads \/ failedLoads' # failedLoads
             => Classifies
          /\ failedLoads' # failedLoads => classifier' = 0
          /\ Classifies /\ classifier # 0
             => resp'.clf = classifier]_vars

\* a failed load, then the load, then a call served from the cache
C8_Witness ==
    /\ failedLoads = 1
    /\ loads = 1
    /\ calls = 3
    /\ resp.op = "fruit"
    /\ resp.clf = classifier

\* C10: when a request completes, on whatever path, the temporary file it
\* created is gone.
C10_TempFileRemoved ==
    [][\A temp_path \in reqs :
         temp_path \notin reqs' => temp_path \notin tempFiles']_vars

====
